---- MODULE Spec2Model ----
(***************************************************************************)
(* The live-conversation controller of src/components/LiveFeature.tsx:     *)
(* startLiveConversation / stopLiveConversation, the transport callbacks   *)
(* (onopen, onmessage, onerror, onclose), the capture callback             *)
(* (onaudioprocess), the transcription buffers and the playback clock.     *)
(*                                                                         *)
(* Every call of startLiveConversation that passes the isRecording guard   *)
(* is one "call" k: it owns the locals of that call (stream, the two audio *)
(* contexts, the three closure variables) and the transport session its    *)
(* connect creates.  The component state (isRecording, error,              *)
(* conversationHistory) and the two refs are shared by all calls.          *)
(***************************************************************************)
EXTENDS Integers, Sequences, FiniteSets, TLC

\* ---------------------------------------------------------------- bounds
MaxStarts == 2      \* accepted calls of startLiveConversation
MaxCount == 2       \* cap of the per-resource release counters
MaxSegs == 3        \* audio-carrying messages per session
MaxTurns == 2       \* length of conversationHistory
MaxText == 2        \* characters held in the two transcription buffers of a call together
MaxTime == 2        \* ticks of an output context's currentTime
MaxDur == 2         \* longest segment duration, in ticks
MaxActivity == 1    \* frames captured and messages delivered in all, in the specification of the whole component
MaxFrames == 2      \* capture callbacks (onaudioprocess) in all
MaxRecs == 3        \* calls of startRecording
MaxChecks == 2      \* checkVideoOperation calls that may report the operation not done

Calls == 1..MaxStarts
NoCall == 0

\* The calls of startRecording (TranscriptionFeature), and the null of its refs.
Recs == 1..MaxRecs
NoRec == 0

\* The text of a transcription delta; NoText is a message without that field.
InputDeltas == {"a", "b"}
OutputDeltas == {"x"}
NoText == "<none>"

\* The duration of a message's audio segment; NoAudio is a message without one.
Durations == 1..MaxDur
NoAudio == 0

\* LiveServerMessage, as far as onmessage reads it (lines 97-111).
Messages ==
    [outputTranscription : OutputDeltas \cup {NoText},
     inputTranscription : InputDeltas \cup {NoText},
     turnComplete : BOOLEAN,
     audio : Durations \cup {NoAudio}]

VARIABLES
    isRecording,            \* useState, line 8
    error,                  \* useState, line 9: "null" | "start" | "live"
    conversationHistory,    \* useState, line 10
    sessionPromiseRef,      \* useRef, line 12: NoCall (null) or the call whose promise it holds
    audioResourcesRef,      \* useRef, line 13: NoCall (null) or the call whose resources it holds
    pc,                     \* per call: position in startLiveConversation
    stream,                 \* per call: the MediaStream of line 56
    inputCtx,               \* per call: the AudioContext of line 57
    outputCtx,              \* per call: the AudioContext of line 58
    processor,              \* per call: the ScriptProcessorNode of line 69
    promise,                \* per call: the promise returned by connect, line 64
    transport,              \* per call: the transport session behind the promise
    closeRequested,         \* per call: then(session => session.close()) registered, line 22
    released,               \* per call: how often each release step took effect
    currentInputTranscription,   \* per call: closure variable, line 51
    currentOutputTranscription,  \* per call: closure variable, line 52
    nextStartTime,          \* per call: closure variable, line 53
    currentTime,            \* per call: outputCtx.currentTime
    decoding,               \* per call: segments whose decodeAudioData is pending
    scheduled,              \* per call: the source.start calls made, in order, each with the
                            \* state and the currentTime of its context at that moment
    received,               \* per call: audio-carrying messages received so far
    inputDeltas,            \* per call: input deltas received since the last turnComplete
    outputDeltas,           \* per call: output deltas received since the last turnComplete
    turnDone,               \* per call: the latest message completed a turn (the deltas are that turn's)
    lastStart,              \* how the latest startLiveConversation call ended
    lastEvent,              \* the handler that ran last, with its call
    stopRan,                \* stopLiveConversation ran since the latest accepted start
    delivered,              \* messages delivered so far, in the specification of the whole component
    captured,               \* the frames handed to onaudioprocess so far, in order
    sent,                   \* per call: the sendRealtimeInput calls on its session that returned, in order
    pendingSends,           \* per call: sends registered on its promise while it was pending
    teardownLog,            \* the release operations of the handler that ran last, in order
    \* src/components/TranscriptionFeature.tsx
    trIsRecording,          \* useState isRecording, line 8
    isTranscribing,         \* useState, line 9
    trError,                \* useState error, line 10: "null" | "start" | "transcription"
    mediaRecorderRef,       \* useRef, line 13: NoRec (null) or the recording whose recorder it holds
    micStreamRef,           \* useRef, line 15: NoRec (null) or the recording whose stream it holds
    recPc,                  \* per recording: position in startRecording and onstop
    recStream,              \* per recording: the MediaStream of line 21
    recorder,               \* per recording: state of the MediaRecorder of line 23
    \* src/components/VideoFeature.tsx
    mode,                   \* useState, line 19
    prompt,                 \* useState, line 20: TRUE when not empty
    inputFile,              \* useState, line 22: TRUE when a file is chosen
    outputVideoUrl,         \* useState, line 24: "null" | "url"
    isLoading,              \* useState, line 26
    loadingMessage,         \* useState, line 27: "" | "first" | "later" (a message of the list)
    videoError,             \* useState error, line 28
    apiKeySelected,         \* useState, line 29
    submitPc,               \* position of the running handleSubmit call
    checks,                 \* checkVideoOperation calls of the running handleSubmit call
    lastVideoEvent          \* the step of VideoFeature that ran last

compVars == <<isRecording, error, conversationHistory>>
refVars == <<sessionPromiseRef, audioResourcesRef>>
resVars == <<stream, inputCtx, outputCtx, processor, released>>
connVars == <<promise, transport, closeRequested>>
turnVars == <<currentInputTranscription, currentOutputTranscription, inputDeltas, outputDeltas,
              turnDone>>
playVars == <<nextStartTime, currentTime, decoding, scheduled, received>>
capVars == <<captured, sent, pendingSends>>
trVars == <<trIsRecording, isTranscribing, trError, mediaRecorderRef, micStreamRef, recPc,
            recStream, recorder>>
videoVars == <<mode, prompt, inputFile, outputVideoUrl, isLoading, loadingMessage, videoError,
               apiKeySelected, submitPc, checks, lastVideoEvent>>
\* The state of the two other components.
otherVars == <<trVars, videoVars>>
\* The state of LiveFeature.
liveVars == <<compVars, refVars, resVars, connVars, turnVars, playVars, pc, lastStart, lastEvent,
              stopRan, delivered, capVars, teardownLog>>
vars == <<liveVars, otherVars>>

NoReleases == [close |-> 0, disconnect |-> 0, trackStop |-> 0, inputClose |-> 0, outputClose |-> 0]

Bump(n) == IF n < MaxCount THEN n + 1 ELSE n

Max(a, b) == IF a >= b THEN a ELSE b

\* The controller state the component is in, read off isRecording and the refs:
\* Closed (not recording, both refs null), Starting (recording, not yet
\* opened), Active (recording, the refs hold the promise and the resources of
\* one call), Detached (not recording while a ref is still set).
ControllerState ==
    IF isRecording
    THEN IF sessionPromiseRef # NoCall /\ audioResourcesRef = sessionPromiseRef
         THEN "Active" ELSE "Starting"
    ELSE IF sessionPromiseRef = NoCall /\ audioResourcesRef = NoCall
         THEN "Closed" ELSE "Detached"

\* The record of a handler run: which handler, of which call, in which state.
Event(name, k) == [name |-> name, call |-> k, from |-> ControllerState]

\* TranscriptionFeature and VideoFeature after mounting, and no teardown yet.
OtherInit ==
    /\ teardownLog = << >>
    /\ trIsRecording = FALSE
    /\ isTranscribing = FALSE
    /\ trError = "null"
    /\ mediaRecorderRef = NoRec
    /\ micStreamRef = NoRec
    /\ recPc = [r \in Recs |-> "unused"]
    /\ recStream = [r \in Recs |-> "none"]
    /\ recorder = [r \in Recs |-> "none"]
    /\ mode = "generate-text"
    /\ prompt = FALSE
    /\ inputFile = FALSE
    /\ outputVideoUrl = "null"
    /\ isLoading = FALSE
    /\ loadingMessage = ""
    /\ videoError = "null"
    /\ apiKeySelected = FALSE
    /\ submitPc = "idle"
    /\ checks = 0
    /\ lastVideoEvent = "init"

Init ==
    /\ OtherInit
    /\ isRecording = FALSE
    /\ error = "null"
    /\ conversationHistory = << >>
    /\ sessionPromiseRef = NoCall
    /\ audioResourcesRef = NoCall
    /\ pc = [k \in Calls |-> "unused"]
    /\ stream = [k \in Calls |-> "none"]
    /\ inputCtx = [k \in Calls |-> "none"]
    /\ outputCtx = [k \in Calls |-> "none"]
    /\ processor = [k \in Calls |-> "none"]
    /\ promise = [k \in Calls |-> "none"]
    /\ transport = [k \in Calls |-> "none"]
    /\ closeRequested = [k \in Calls |-> FALSE]
    /\ released = [k \in Calls |-> NoReleases]
    /\ currentInputTranscription = [k \in Calls |-> ""]
    /\ currentOutputTranscription = [k \in Calls |-> ""]
    /\ nextStartTime = [k \in Calls |-> 0]
    /\ currentTime = [k \in Calls |-> 0]
    /\ decoding = [k \in Calls |-> {}]
    /\ scheduled = [k \in Calls |-> << >>]
    /\ received = [k \in Calls |-> 0]
    /\ inputDeltas = [k \in Calls |-> << >>]
    /\ outputDeltas = [k \in Calls |-> << >>]
    /\ turnDone = [k \in Calls |-> FALSE]
    /\ lastStart = "none"
    /\ lastEvent = [name |-> "init", call |-> NoCall, from |-> "Closed"]
    /\ stopRan = FALSE
    /\ delivered = 0
    /\ captured = << >>
    /\ sent = [k \in Calls |-> << >>]
    /\ pendingSends = [k \in Calls |-> << >>]

\* ------------------------------------------------- stopLiveConversation

\* Line 21: the ref holds a promise.
HasSession == sessionPromiseRef # NoCall

\* Line 22: then(session => session.close()).  The callback runs at once when
\* the promise is already resolved, later (in Opened) when it is still
\* pending, and never when it is rejected.
ClosesNow == HasSession /\ promise[sessionPromiseRef] = "resolved"

\* session.close() on call k: a close of an open session starts its closing
\* handshake; on any other session it has no effect.
SessionClose(tr, k) == [tr EXCEPT ![k] = IF @ = "open" THEN "closing" ELSE @]

\* Line 22, on the transport sessions tr.
TransportAfterStop(tr) ==
    IF ClosesNow THEN SessionClose(tr, sessionPromiseRef) ELSE tr

\* Line 22: the close request is registered on the promise.
CloseRequestedAfterStop ==
    IF HasSession THEN [closeRequested EXCEPT ![sessionPromiseRef] = TRUE]
    ELSE closeRequested

\* Line 23.
SessionRefAfterStop == NoCall

\* Line 34 left out: the ref keeps the released resources.
ResourcesRefKept == audioResourcesRef

\* Line 34.
ResourcesRefAfterStop == NoCall

\* Line 25: the ref holds the resources of a call.
HasResources == audioResourcesRef # NoCall

\* Lines 22 and 26-33: the release steps that take effect, counted per call.
ReleasedAfterStop ==
    LET afterClose == IF ClosesNow
                      THEN [released EXCEPT ![sessionPromiseRef].close = Bump(@)]
                      ELSE released
        r == audioResourcesRef
    IN  IF HasResources
        THEN [afterClose EXCEPT
                ![r].disconnect = Bump(@),
                ![r].trackStop = Bump(@),
                ![r].inputClose = IF inputCtx[r] # "closed" THEN Bump(@) ELSE @,
                ![r].outputClose = IF outputCtx[r] # "closed" THEN Bump(@) ELSE @]
        ELSE afterClose

\* A handler that does not run stopLiveConversation releases nothing.
NoTeardown == teardownLog' = << >>

\* The steps st, one after the other, each only if its condition holds.
Performed(st) ==
    LET RECURSIVE from(_)
        from(i) == IF i > Len(st) THEN << >>
                   ELSE (IF st[i][2] THEN << st[i][1] >> ELSE << >>) \o from(i + 1)
    IN  from(1)

\* Lines 29-33 in the other order: the output context is closed before the
\* input context.
TeardownOrderOutputFirst ==
    LET r == audioResourcesRef
    IN  Performed(<< <<"requestClose", HasSession>>,
                     <<"disconnect", HasResources>>,
                     <<"trackStop", HasResources>>,
                     <<"outputClose", HasResources /\ outputCtx[r] # "closed">>,
                     <<"inputClose", HasResources /\ inputCtx[r] # "closed">>,
                     <<"close", ClosesNow>> >>)

\* Lines 21-33, the operations one run of stopLiveConversation performs, in
\* the order it performs them: line 22 registers the close on the promise
\* ("requestClose"); the callback, session.close() itself ("close"), runs
\* after the synchronous rest of the function, when the promise is resolved.
TeardownOrder ==
    LET r == audioResourcesRef
    IN  Performed(<< <<"requestClose", HasSession>>,
                     <<"disconnect", HasResources>>,
                     <<"trackStop", HasResources>>,
                     <<"inputClose", HasResources /\ inputCtx[r] # "closed">>,
                     <<"outputClose", HasResources /\ outputCtx[r] # "closed">>,
                     <<"close", ClosesNow>> >>)

\* stopLiveConversation, lines 20-37, run on the transport sessions tr (an
\* event handler changes its own session before it calls stop).
StopLiveConversation(tr) ==
    /\ transport' = TransportAfterStop(tr)
    /\ closeRequested' = CloseRequestedAfterStop
    /\ sessionPromiseRef' = SessionRefAfterStop
    /\ released' = ReleasedAfterStop
    /\ IF HasResources
       THEN LET r == audioResourcesRef IN
            /\ processor' = [processor EXCEPT ![r] = "disconnected"]
            /\ stream' = [stream EXCEPT ![r] = "stopped"]
            /\ inputCtx' = [inputCtx EXCEPT ![r] = "closed"]
            /\ outputCtx' = [outputCtx EXCEPT ![r] = "closed"]
       ELSE UNCHANGED <<processor, stream, inputCtx, outputCtx>>
    /\ audioResourcesRef' = ResourcesRefAfterStop
    /\ isRecording' = FALSE
    /\ stopRan' = TRUE
    /\ teardownLog' = TeardownOrder

\* The user presses the stop button (line 153 shows it while isRecording).
UserStop ==
    /\ isRecording
    /\ StopLiveConversation(transport)
    /\ lastEvent' = Event("stop", NoCall)
    /\ UNCHANGED <<delivered, capVars, otherVars>>
    /\ UNCHANGED <<error, conversationHistory, promise, turnVars, playVars, pc, lastStart>>

\* The release steps of stopLiveConversation: session.close (22),
\* processor.disconnect (26), track.stop (27), inputCtx.close (29-30) and
\* outputCtx.close (31-33).
TeardownSteps == {"close", "disconnect", "trackStop", "inputClose", "outputClose"}

\* Lines 26 and 27 are plain statements of the function body: what they throw
\* leaves stopLiveConversation at that statement.  Lines 22, 30 and 33 end
\* in .catch(console.error): what fails there is logged.
AbortsTeardown(step) == step \in {"disconnect", "trackStop"}

\* The step can fail in this state: it is one the run would reach and perform.
StepIsPerformed(step) ==
    CASE step = "close" -> ClosesNow /\ transport[sessionPromiseRef] = "open"
      [] step = "disconnect" -> HasResources
      [] step = "trackStop" -> HasResources
      [] step = "inputClose" -> HasResources /\ inputCtx[audioResourcesRef] # "closed"
      [] step = "outputClose" -> HasResources /\ outputCtx[audioResourcesRef] # "closed"

\* The name of the event of a run of stopLiveConversation in which step fails.
StopFailed(step) == "stopFailed:" \o step

\* The operations a run attempts in which step fails: all of them when the
\* failure is caught, those up to the failing statement (and the close
\* callback, which runs later on its own) when it is thrown.
AttemptedOrder(step) ==
    IF AbortsTeardown(step)
    THEN LET i == CHOOSE i \in 1..Len(TeardownOrder) : TeardownOrder[i] = step
         IN  SubSeq(TeardownOrder, 1, i) \o (IF ClosesNow THEN << "close" >> ELSE << >>)
    ELSE TeardownOrder

\* stopLiveConversation, lines 20-37, in a run in which one release step
\* fails: the step has no effect; a throw of line 26 or 27 ends the run there
\* (lines 34 and 36 included), a failure of the others is caught and the run
\* goes on.
StopLiveConversationFailing(step) ==
    LET r == audioResourcesRef
        reached(s) ==
            CASE step = "disconnect" -> FALSE
              [] step = "trackStop" -> s = "disconnect"
              [] OTHER -> s # step
    IN  /\ StepIsPerformed(step)
        /\ transport' = IF step = "close" THEN transport ELSE TransportAfterStop(transport)
        /\ closeRequested' = CloseRequestedAfterStop
        /\ sessionPromiseRef' = SessionRefAfterStop
        /\ released' =
              LET afterClose == IF ClosesNow /\ step # "close"
                                THEN [released EXCEPT ![sessionPromiseRef].close = Bump(@)]
                                ELSE released
              IN  IF HasResources
                  THEN [afterClose EXCEPT
                          ![r].disconnect = IF reached("disconnect") THEN Bump(@) ELSE @,
                          ![r].trackStop = IF reached("trackStop") THEN Bump(@) ELSE @,
                          ![r].inputClose =
                              IF reached("inputClose") /\ inputCtx[r] # "closed"
                              THEN Bump(@) ELSE @,
                          ![r].outputClose =
                              IF reached("outputClose") /\ outputCtx[r] # "closed"
                              THEN Bump(@) ELSE @]
                  ELSE afterClose
        /\ IF HasResources
           THEN /\ processor' = [processor EXCEPT ![r] =
                                    IF reached("disconnect") THEN "disconnected" ELSE @]
                /\ stream' = [stream EXCEPT ![r] =
                                 IF reached("trackStop") THEN "stopped" ELSE @]
                /\ inputCtx' = [inputCtx EXCEPT ![r] =
                                   IF reached("inputClose") THEN "closed" ELSE @]
                /\ outputCtx' = [outputCtx EXCEPT ![r] =
                                    IF reached("outputClose") THEN "closed" ELSE @]
           ELSE UNCHANGED <<processor, stream, inputCtx, outputCtx>>
        /\ audioResourcesRef' = IF AbortsTeardown(step) THEN audioResourcesRef
                                ELSE ResourcesRefAfterStop
        /\ isRecording' = IF AbortsTeardown(step) THEN isRecording ELSE FALSE
        /\ stopRan' = TRUE
        /\ teardownLog' = AttemptedOrder(step)

\* The user presses the stop button and one release step of the run fails.
UserStopFailing(step) ==
    /\ isRecording
    /\ StopLiveConversationFailing(step)
    /\ lastEvent' = Event(StopFailed(step), NoCall)
    /\ UNCHANGED <<delivered, capVars, otherVars>>
    /\ UNCHANGED <<error, conversationHistory, promise, turnVars, playVars, pc, lastStart>>

\* ------------------------------------------------ startLiveConversation

\* Line 46 left out: the call goes on to getUserMedia although a session is
\* recording.
StartWithoutGuard ==
    /\ isRecording
    /\ \E k \in Calls :
          /\ pc[k] = "unused"
          /\ \A j \in Calls : j < k => pc[j] # "unused"
          /\ pc' = [pc EXCEPT ![k] = "getUserMedia"]
    /\ error' = "null"
    /\ isRecording' = TRUE
    /\ conversationHistory' = << >>
    /\ lastStart' = "accepted"
    /\ lastEvent' = Event("start", NoCall)
    /\ NoTeardown
    /\ UNCHANGED <<refVars, resVars, connVars, turnVars, playVars, stopRan, delivered, capVars,
                   otherVars>>

\* Line 46: the call returns at once while isRecording.
StartWhileRecording ==
    /\ isRecording
    /\ lastStart' = "returned"
    /\ lastEvent' = Event("start", NoCall)
    /\ NoTeardown
    /\ UNCHANGED <<delivered, capVars, otherVars>>
    /\ UNCHANGED <<compVars, refVars, resVars, connVars, turnVars, playVars, pc, stopRan>>

\* Line 49 left out: an accepted call keeps the history of the session before.
StartAcceptedKeepsHistory(k) ==
    /\ ~isRecording
    /\ pc[k] = "unused"
    /\ \A j \in Calls : j < k => pc[j] # "unused"
    /\ error' = "null"
    /\ isRecording' = TRUE
    /\ pc' = [pc EXCEPT ![k] = "getUserMedia"]
    /\ lastStart' = "accepted"
    /\ lastEvent' = Event("start", k)
    /\ stopRan' = FALSE
    /\ UNCHANGED <<conversationHistory, refVars, resVars, connVars, turnVars, playVars,
                   delivered, capVars, otherVars>>
    /\ NoTeardown

\* Lines 47-56: the call is accepted and suspends in getUserMedia.
StartAccepted(k) ==
    /\ ~isRecording
    /\ pc[k] = "unused"
    /\ \A j \in Calls : j < k => pc[j] # "unused"
    /\ error' = "null"
    /\ isRecording' = TRUE
    /\ conversationHistory' = << >>
    /\ pc' = [pc EXCEPT ![k] = "getUserMedia"]
    /\ lastStart' = "accepted"
    /\ lastEvent' = Event("start", k)
    /\ NoTeardown
    /\ UNCHANGED <<delivered, capVars, otherVars>>
    /\ stopRan' = FALSE
    /\ UNCHANGED <<refVars, resVars, connVars, turnVars, playVars>>

StartLiveConversation ==
    \/ StartWhileRecording
    \/ \E k \in Calls : StartAccepted(k)

\* Lines 140-143: the catch block.
CatchStartFailure ==
    /\ error' = "start"
    /\ isRecording' = FALSE

\* Line 56 rejects: the catch block runs, nothing was acquired.
GetUserMediaRejects(k) ==
    /\ pc[k] = "getUserMedia"
    /\ pc' = [pc EXCEPT ![k] = "failed"]
    /\ CatchStartFailure
    /\ lastEvent' = Event("getUserMediaRejected", k)
    /\ NoTeardown
    /\ UNCHANGED <<delivered, capVars, otherVars>>
    /\ UNCHANGED <<conversationHistory, refVars, resVars, connVars, turnVars, playVars,
                   lastStart, stopRan>>

\* Lines 56-64 and 140-143: getUserMedia resolves and the rest of the try block
\* runs without suspending.  failAt names the statement that throws, if any:
\* the input context (57), the output context (58), or getLiveSession/connect
\* (60, 64).
GetUserMediaResolves(k, failAt) ==
    /\ pc[k] = "getUserMedia"
    /\ stream' = [stream EXCEPT ![k] = "live"]
    /\ inputCtx' = [inputCtx EXCEPT ![k] = IF failAt = "inputCtx" THEN @ ELSE "running"]
    /\ outputCtx' = [outputCtx EXCEPT ![k] =
                        IF failAt \in {"inputCtx", "outputCtx"} THEN @ ELSE "running"]
    /\ IF failAt = "none"
       THEN /\ sessionPromiseRef' = k
            /\ promise' = [promise EXCEPT ![k] = "pending"]
            /\ transport' = [transport EXCEPT ![k] = "connecting"]
            /\ pc' = [pc EXCEPT ![k] = "connected"]
            /\ UNCHANGED <<isRecording, error>>
       ELSE /\ CatchStartFailure
            /\ pc' = [pc EXCEPT ![k] = "failed"]
            /\ UNCHANGED <<sessionPromiseRef, promise, transport>>
    /\ lastEvent' = Event(IF failAt = "none" THEN "connect" ELSE "startThrew", k)
    /\ NoTeardown
    /\ UNCHANGED <<delivered, capVars, otherVars>>
    /\ UNCHANGED <<conversationHistory, audioResourcesRef, processor, released,
                   closeRequested, turnVars, playVars, lastStart, stopRan>>

\* ------------------------------------------------------ transport events

\* The promise of line 64 rejects: nobody awaits it, so no handler of the
\* component runs (the catch of line 140 covers only what throws in the try).
ConnectRejects(k) ==
    /\ transport[k] = "connecting"
    /\ promise[k] = "pending"
    /\ promise' = [promise EXCEPT ![k] = "rejected"]
    /\ transport' = [transport EXCEPT ![k] = "failed"]
    /\ lastEvent' = Event("connectRejected", k)
    /\ NoTeardown
    /\ UNCHANGED <<delivered, capVars, otherVars>>
    /\ UNCHANGED <<compVars, refVars, resVars, closeRequested, turnVars, playVars, pc,
                   lastStart, stopRan>>

\* onopen, lines 67-95; the promise of connect resolves right after it, and
\* what was registered on it meanwhile runs then, in the order of registration:
\* the sends of line 89 first (a stop clears the ref, so nothing is registered
\* after its close), then the close of line 22.
Opened(k) ==
    /\ transport[k] = "connecting"
    /\ processor' = [processor EXCEPT ![k] = "connected"]
    /\ audioResourcesRef' = k
    /\ promise' = [promise EXCEPT ![k] = "resolved"]
    /\ IF closeRequested[k]
       THEN /\ transport' = [transport EXCEPT ![k] = "closing"]
            /\ released' = [released EXCEPT ![k].close = Bump(@)]
       ELSE /\ transport' = [transport EXCEPT ![k] = "open"]
            /\ released' = released
    /\ sent' = [sent EXCEPT ![k] = @ \o pendingSends[k]]
    /\ pendingSends' = [pendingSends EXCEPT ![k] = << >>]
    /\ lastEvent' = Event("opened", k)
    /\ NoTeardown
    /\ UNCHANGED <<delivered, captured, otherVars>>
    /\ UNCHANGED <<compVars, sessionPromiseRef, stream, inputCtx, outputCtx, closeRequested,
                   turnVars, playVars, pc, lastStart, stopRan>>

\* Line 126 left out: onerror reports the error and tears nothing down.
ErrorEventWithoutStop(k) ==
    /\ transport[k] \in {"connecting", "open", "closing"}
    /\ error' = "live"
    /\ transport' = [transport EXCEPT ![k] = "errored"]
    /\ lastEvent' = Event("error", k)
    /\ UNCHANGED <<isRecording, conversationHistory, refVars, resVars, promise,
                   closeRequested, turnVars, playVars, pc, lastStart, stopRan, delivered, capVars,
                   otherVars>>
    /\ NoTeardown

\* Lines 123-127 followed by a retry: onerror tears down and has the call ask
\* for the microphone again.
ErrorEventRetries(k) ==
    /\ transport[k] \in {"connecting", "open", "closing"}
    /\ error' = "live"
    /\ StopLiveConversation([transport EXCEPT ![k] = "errored"])
    /\ pc' = [pc EXCEPT ![k] = "getUserMedia"]
    /\ lastEvent' = Event("error", k)
    /\ UNCHANGED <<delivered, capVars, otherVars>>
    /\ UNCHANGED <<conversationHistory, promise, turnVars, playVars, lastStart>>

\* onerror, lines 123-127.
ErrorEvent(k) ==
    /\ transport[k] \in {"connecting", "open", "closing"}
    /\ error' = "live"
    /\ StopLiveConversation([transport EXCEPT ![k] = "errored"])
    /\ lastEvent' = Event("error", k)
    /\ UNCHANGED <<delivered, capVars, otherVars>>
    /\ UNCHANGED <<conversationHistory, promise, turnVars, playVars, pc, lastStart>>

\* onclose, lines 128-130.
ClosedEvent(k) ==
    /\ transport[k] \in {"open", "closing", "errored"}
    /\ StopLiveConversation([transport EXCEPT ![k] = "closed"])
    /\ lastEvent' = Event("closed", k)
    /\ UNCHANGED <<delivered, capVars, otherVars>>
    /\ UNCHANGED <<error, conversationHistory, promise, turnVars, playVars, pc, lastStart>>

\* ------------------------------------------------------ onaudioprocess

\* Line 69: createScriptProcessor(4096, 1, 1), the samples of one frame.
BufferSize == 4096

\* Line 81: Int16Array, two bytes per element.
BytesPerSample == 2

\* Line 83: the factor of the conversion.
Scale == 32768

\* A sample s is written as the integer s * 2 * Scale: the samples of [-1, 1]
\* are -2 * Scale .. 2 * Scale, and the multiples of 1 / Scale are the even ones.
Samples == (0 - 2 * Scale) .. (2 * Scale)

\* The samples the capture specifications draw frames from: silence, the two
\* ends of the range and the largest sample below 1.
FrameSamples == {0 - 2 * Scale, 0, 2 * Scale - 2, 2 * Scale}

\* Line 83, the product inputData[i] * 32768 of sample h, with its fraction
\* dropped as the store into an Int16Array drops it (towards zero).
Truncated(h) == IF h >= 0 THEN h \div 2 ELSE 0 - ((0 - h) \div 2)

\* Line 83, the store into an Int16Array element: the integer modulo 2^16,
\* read as a signed 16-bit number.
Int16(n) == ((n + Scale) % (2 * Scale)) - Scale

\* Line 83: int16[i] = inputData[i] * 32768.
EncodeSample(h) == Int16(Truncated(h))

\* decodeAudioData (utils/media): an int16 value v becomes the sample
\* v / 32768, written like the samples above.
DecodeSample(v) == 2 * v

\* Line 86 with the Int16Array copied element by element into bytes
\* (new Uint8Array(int16)): one byte per sample.
FrameBytesOfElements == BufferSize

\* Line 86: new Uint8Array(int16.buffer), the bytes of one frame.
FrameBytes == BytesPerSample * BufferSize

\* Line 87.
MimeType == "audio/pcm;rate=16000"

\* Lines 85-88: the blob of the frame with number id whose samples are h
\* (the model carries one sample for the BufferSize samples of a frame).
PcmBlob(id, h) ==
    [frame |-> id, data |-> EncodeSample(h), bytes |-> FrameBytes, mimeType |-> MimeType]

\* Lines 89-91 with the newest frame handed over first: a send goes to the
\* front of the session's sends.
AudioProcessNewestFirst(j, h) ==
    /\ processor[j] = "connected"
    /\ inputCtx[j] = "running"
    /\ Len(captured) < MaxFrames
    /\ captured' = Append(captured, [processor |-> j, sample |-> h])
    /\ LET s == sessionPromiseRef
           blob == PcmBlob(Len(captured) + 1, h)
       IN  IF s # NoCall /\ promise[s] = "resolved"
           THEN /\ sent' = [sent EXCEPT ![s] = << blob >> \o @]
                /\ pendingSends' = pendingSends
           ELSE IF s # NoCall /\ promise[s] = "pending"
           THEN /\ pendingSends' = [pendingSends EXCEPT ![s] = << blob >> \o @]
                /\ sent' = sent
           ELSE UNCHANGED <<sent, pendingSends>>
    /\ lastEvent' = Event("audioprocess", j)
    /\ NoTeardown
    /\ UNCHANGED <<compVars, refVars, resVars, connVars, turnVars, playVars, pc, lastStart,
                   stopRan, delivered, otherVars>>

\* onaudioprocess, lines 78-92: the processor of call j hands over a frame of
\* samples h.  The send goes to the session sessionPromiseRef holds at that
\* moment: at once when its promise is resolved, when it resolves if it is
\* pending (Opened), never if it is rejected or the ref is null.
AudioProcess(j, h) ==
    /\ processor[j] = "connected"
    /\ inputCtx[j] = "running"
    /\ Len(captured) < MaxFrames
    /\ captured' = Append(captured, [processor |-> j, sample |-> h])
    /\ LET s == sessionPromiseRef
           blob == PcmBlob(Len(captured) + 1, h)
       IN  IF s # NoCall /\ promise[s] = "resolved"
           THEN /\ sent' = [sent EXCEPT ![s] = Append(@, blob)]
                /\ pendingSends' = pendingSends
           ELSE IF s # NoCall /\ promise[s] = "pending"
           THEN /\ pendingSends' = [pendingSends EXCEPT ![s] = Append(@, blob)]
                /\ sent' = sent
           ELSE UNCHANGED <<sent, pendingSends>>
    /\ lastEvent' = Event("audioprocess", j)
    /\ NoTeardown
    /\ UNCHANGED <<compVars, refVars, resVars, connVars, turnVars, playVars, pc, lastStart,
                   stopRan, delivered, otherVars>>

\* Lines 89-91 with a failing send treated as a connection error: the
\* callback tears the session down.
SendFailureStops(j, h) ==
    /\ processor[j] = "connected"
    /\ inputCtx[j] = "running"
    /\ Len(captured) < MaxFrames
    /\ sessionPromiseRef # NoCall
    /\ promise[sessionPromiseRef] = "resolved"
    /\ captured' = Append(captured, [processor |-> j, sample |-> h])
    /\ StopLiveConversation(transport)
    /\ lastEvent' = Event("sendFailed", j)
    /\ UNCHANGED <<error, conversationHistory, promise, turnVars, playVars, pc, lastStart,
                   delivered, sent, pendingSends, otherVars>>

\* onaudioprocess, lines 78-92, when session.sendRealtimeInput throws: the
\* exception rejects the promise that then() returned, which nobody handles;
\* the frame is not handed over and nothing else happens.
SendFails(j, h) ==
    /\ processor[j] = "connected"
    /\ inputCtx[j] = "running"
    /\ Len(captured) < MaxFrames
    /\ sessionPromiseRef # NoCall
    /\ promise[sessionPromiseRef] = "resolved"
    /\ captured' = Append(captured, [processor |-> j, sample |-> h])
    /\ lastEvent' = Event("sendFailed", j)
    /\ NoTeardown
    /\ UNCHANGED <<compVars, refVars, resVars, connVars, turnVars, playVars, pc, lastStart,
                   stopRan, delivered, sent, pendingSends, otherVars>>

\* ----------------------------------------------------------- onmessage

\* Lines 98 and 101: buffer += text.
AppendText(buffer, text) == IF text = NoText THEN buffer ELSE buffer \o text

\* The record of the deltas that arrived: text joins the list unless absent.
Arrived(deltas, text) == IF text = NoText THEN deltas ELSE Append(deltas, text)

\* Line 106 with the two fields exchanged.
CompletedTurnSwapped(fullInput, fullOutput) == [user |-> fullOutput, model |-> fullInput]

\* Line 106: the turn appended to the history.
CompletedTurn(fullInput, fullOutput) == [user |-> fullInput, model |-> fullOutput]

\* Line 112: the segment is played only while the ref holds resources.
PlaysAudio(m) == m.audio # NoAudio /\ audioResourcesRef # NoCall

\* Line 114 without the maximum: the clock is reset to the device time.
ClockResetToDevice(k) == currentTime[audioResourcesRef]

\* Line 114.
ClockAtReceipt(k) == Max(nextStartTime[k], currentTime[audioResourcesRef])

\* onmessage, lines 96-115: the handler of call k's session up to the await
\* of decodeAudioData.  (The specifications say what becomes of delivered.)
OnMessage(k, m) ==
    /\ transport[k] \in {"open", "closing"}
    /\ LET newOutput == AppendText(currentOutputTranscription[k], m.outputTranscription)
           newInput == AppendText(currentInputTranscription[k], m.inputTranscription)
       IN  /\ Len(newOutput) + Len(newInput) <= MaxText
           /\ IF m.turnComplete
              THEN /\ Len(conversationHistory) < MaxTurns
                   /\ conversationHistory' =
                         Append(conversationHistory, CompletedTurn(newInput, newOutput))
                   /\ currentInputTranscription' =
                         [currentInputTranscription EXCEPT ![k] = ""]
                   /\ currentOutputTranscription' =
                         [currentOutputTranscription EXCEPT ![k] = ""]
              ELSE /\ conversationHistory' = conversationHistory
                   /\ currentInputTranscription' =
                         [currentInputTranscription EXCEPT ![k] = newInput]
                   /\ currentOutputTranscription' =
                         [currentOutputTranscription EXCEPT ![k] = newOutput]
    /\ inputDeltas' = [inputDeltas EXCEPT ![k] =
          Arrived(IF turnDone[k] THEN << >> ELSE @, m.inputTranscription)]
    /\ outputDeltas' = [outputDeltas EXCEPT ![k] =
          Arrived(IF turnDone[k] THEN << >> ELSE @, m.outputTranscription)]
    /\ turnDone' = [turnDone EXCEPT ![k] = m.turnComplete]
    /\ IF PlaysAudio(m)
       THEN /\ received[k] < MaxSegs
            /\ nextStartTime' = [nextStartTime EXCEPT ![k] = ClockAtReceipt(k)]
            /\ received' = [received EXCEPT ![k] = @ + 1]
            /\ decoding' = [decoding EXCEPT ![k] = @ \cup
                  {[id |-> received[k] + 1, duration |-> m.audio, ctx |-> audioResourcesRef]}]
       ELSE UNCHANGED <<nextStartTime, received, decoding>>
    /\ lastEvent' = Event("message", k)
    /\ UNCHANGED <<isRecording, error, refVars, resVars, connVars, currentTime, scheduled,
                   pc, lastStart, stopRan, capVars, otherVars>>
    /\ NoTeardown

\* decodeAudioData (utils/media): an asynchronous operation of its own per
\* segment; the pending decodes of a session complete in any order.
DecodeMayComplete(k, seg) == seg \in decoding[k]

\* Line 119: the start time handed to source.start.
StartTimeOf(k) == nextStartTime[k]

\* Line 120.
ClockAfter(k, seg) == StartTimeOf(k) + seg.duration

\* Lines 115-120: the decode of segment seg resolves and the handler resumes.
DecodeResolves(k, seg) ==
    /\ DecodeMayComplete(k, seg)
    /\ decoding' = [decoding EXCEPT ![k] = @ \ {seg}]
    /\ scheduled' = [scheduled EXCEPT ![k] = Append(@,
          [id |-> seg.id, start |-> StartTimeOf(k), duration |-> seg.duration,
           ctx |-> seg.ctx, ctxState |-> outputCtx[seg.ctx], now |-> currentTime[seg.ctx]])]
    /\ nextStartTime' = [nextStartTime EXCEPT ![k] = ClockAfter(k, seg)]
    /\ lastEvent' = Event("decoded", k)
    /\ NoTeardown
    /\ UNCHANGED <<delivered, capVars, otherVars>>
    /\ UNCHANGED <<compVars, refVars, resVars, connVars, turnVars, currentTime, received,
                   pc, lastStart, stopRan>>

\* Line 115 with the failure treated as a connection error: the handler
\* tears the session down.
DecodeRejectsStops(k, seg) ==
    /\ DecodeMayComplete(k, seg)
    /\ decoding' = [decoding EXCEPT ![k] = @ \ {seg}]
    /\ StopLiveConversation(transport)
    /\ lastEvent' = Event("decodeRejected", k)
    /\ UNCHANGED <<delivered, capVars, otherVars>>
    /\ UNCHANGED <<error, conversationHistory, promise, turnVars, nextStartTime,
                   currentTime, scheduled, received, pc, lastStart>>

\* Line 115: the decode of segment seg rejects; the handler's promise rejects
\* and the rest of the handler is skipped.
DecodeRejects(k, seg) ==
    /\ DecodeMayComplete(k, seg)
    /\ decoding' = [decoding EXCEPT ![k] = @ \ {seg}]
    /\ lastEvent' = Event("decodeRejected", k)
    /\ NoTeardown
    /\ UNCHANGED <<delivered, capVars, otherVars>>
    /\ UNCHANGED <<compVars, refVars, resVars, connVars, turnVars, nextStartTime,
                   currentTime, scheduled, received, pc, lastStart, stopRan>>

\* The clock of the output context the ref holds advances (line 114 reads it).
Tick(c) ==
    /\ audioResourcesRef = c
    /\ outputCtx[c] = "running"
    /\ currentTime[c] < MaxTime
    /\ currentTime' = [currentTime EXCEPT ![c] = @ + 1]
    /\ lastEvent' = Event("tick", c)
    /\ NoTeardown
    /\ UNCHANGED <<delivered, capVars, otherVars>>
    /\ UNCHANGED <<compVars, refVars, resVars, connVars, turnVars, nextStartTime, decoding,
                   scheduled, received, pc, lastStart, stopRan>>

\* ------------------------------------------------------- specifications

\* Messages that carry transcription and turn completion only.
TextMessages == {m \in Messages : m.audio = NoAudio}

\* Messages that carry an audio segment only.
AudioMessages ==
    {m \in Messages : /\ m.audio # NoAudio
                      /\ m.outputTranscription = NoText
                      /\ m.inputTranscription = NoText
                      /\ ~m.turnComplete}

\* Messages of one kind: transcription and turn completion, or audio.
OneKindMessages == TextMessages \cup AudioMessages

LifecycleNext ==
    \/ StartLiveConversation
    \/ UserStop
    \/ \E k \in Calls : GetUserMediaRejects(k)
    \/ \E k \in Calls, failAt \in {"none", "inputCtx", "outputCtx", "connect"} :
          GetUserMediaResolves(k, failAt)
    \/ \E k \in Calls : ConnectRejects(k)
    \/ \E k \in Calls : Opened(k)
    \/ \E k \in Calls : ErrorEvent(k)
    \/ \E k \in Calls : ClosedEvent(k)

DecodeNext ==
    \/ \E k \in Calls : \E seg \in decoding[k] : DecodeResolves(k, seg)
    \/ \E k \in Calls : \E seg \in decoding[k] : DecodeRejects(k, seg)
    \/ \E c \in Calls : Tick(c)

TurnNext ==
    \E k \in Calls, m \in TextMessages : OnMessage(k, m) /\ UNCHANGED delivered

PlaybackNext ==
    \/ \E k \in Calls, m \in AudioMessages : OnMessage(k, m) /\ UNCHANGED delivered
    \/ DecodeNext

Next ==
    \/ LifecycleNext
    \/ DecodeNext
    \/ \E j \in Calls, h \in FrameSamples :
          /\ Len(captured) + delivered < MaxActivity
          /\ AudioProcess(j, h)
    \/ \E k \in Calls, m \in OneKindMessages :
          /\ Len(captured) + delivered < MaxActivity
          /\ delivered' = delivered + 1
          /\ OnMessage(k, m)

\* The whole component: the lifecycle, and up to MaxActivity captured frames
\* and delivered messages in all, each message of one kind, with their decodes.
Spec == Init /\ [][Next]_vars

\* The lifecycle alone: no message is delivered.
LifecycleSpec == Init /\ [][LifecycleNext]_vars

\* The state after startLiveConversation was accepted, getUserMedia resolved,
\* connect was called and the session opened (call 1 is Active).
ActiveInit ==
    /\ OtherInit
    /\ isRecording = TRUE
    /\ error = "null"
    /\ conversationHistory = << >>
    /\ sessionPromiseRef = 1
    /\ audioResourcesRef = 1
    /\ pc = [k \in Calls |-> IF k = 1 THEN "connected" ELSE "unused"]
    /\ stream = [k \in Calls |-> IF k = 1 THEN "live" ELSE "none"]
    /\ inputCtx = [k \in Calls |-> IF k = 1 THEN "running" ELSE "none"]
    /\ outputCtx = [k \in Calls |-> IF k = 1 THEN "running" ELSE "none"]
    /\ processor = [k \in Calls |-> IF k = 1 THEN "connected" ELSE "none"]
    /\ promise = [k \in Calls |-> IF k = 1 THEN "resolved" ELSE "none"]
    /\ transport = [k \in Calls |-> IF k = 1 THEN "open" ELSE "none"]
    /\ closeRequested = [k \in Calls |-> FALSE]
    /\ released = [k \in Calls |-> NoReleases]
    /\ currentInputTranscription = [k \in Calls |-> ""]
    /\ currentOutputTranscription = [k \in Calls |-> ""]
    /\ nextStartTime = [k \in Calls |-> 0]
    /\ currentTime = [k \in Calls |-> 0]
    /\ decoding = [k \in Calls |-> {}]
    /\ scheduled = [k \in Calls |-> << >>]
    /\ received = [k \in Calls |-> 0]
    /\ inputDeltas = [k \in Calls |-> << >>]
    /\ outputDeltas = [k \in Calls |-> << >>]
    /\ turnDone = [k \in Calls |-> FALSE]
    /\ lastStart = "accepted"
    /\ lastEvent = [name |-> "opened", call |-> 1, from |-> "Starting"]
    /\ stopRan = FALSE
    /\ delivered = 0
    /\ captured = << >>
    /\ sent = [k \in Calls |-> << >>]
    /\ pendingSends = [k \in Calls |-> << >>]

\* One Active session and its transcription messages.
TurnSpec == ActiveInit /\ [][TurnNext]_vars

\* One Active session, its audio messages and their decodes.
PlaybackSpec == ActiveInit /\ [][PlaybackNext]_vars

FaultNext ==
    \/ LifecycleNext
    \/ \E step \in TeardownSteps : UserStopFailing(step)

\* The lifecycle in an environment whose release operations may fail.
FaultSpec == Init /\ [][FaultNext]_vars

\* Messages that complete a turn, with the user's words of that turn if any.
CompletionMessages ==
    {m \in TextMessages : /\ m.turnComplete
                           /\ m.outputTranscription = NoText
                           /\ m.inputTranscription \in {"a", NoText}}

HistoryNext ==
    \/ StartLiveConversation
    \/ UserStop
    \/ \E k \in Calls : GetUserMediaResolves(k, "none")
    \/ \E k \in Calls : Opened(k)
    \/ \E k \in Calls : ClosedEvent(k)
    \/ \E k \in Calls, m \in CompletionMessages : OnMessage(k, m) /\ UNCHANGED delivered

\* The lifecycle, and the messages that complete turns.
HistorySpec == Init /\ [][HistoryNext]_vars

\* Messages that carry an audio segment: alone, or (the shortest segment)
\* together with the user's words and the end of the turn.
SegmentMessages ==
    AudioMessages \cup
    {m \in Messages : /\ m.audio = 1
                      /\ m.outputTranscription = NoText
                      /\ m.inputTranscription = "a"
                      /\ m.turnComplete}

SegmentNext ==
    \/ \E k \in Calls, m \in SegmentMessages : OnMessage(k, m) /\ UNCHANGED delivered
    \/ DecodeNext

\* One Active session, its audio-carrying messages and their decodes.
SegmentSpec == ActiveInit /\ [][SegmentNext]_vars

CaptureNext ==
    \/ \E j \in Calls, h \in FrameSamples : AudioProcess(j, h)
    \/ UserStop
    \/ \E k \in Calls : ErrorEvent(k)
    \/ \E k \in Calls : ClosedEvent(k)

\* One Active session, the frames its processor captures, and its end.
CaptureSpec == ActiveInit /\ [][CaptureNext]_vars

CodecNext ==
    /\ captured = << >>
    /\ \E h \in Samples : AudioProcess(1, h)

\* One Active session and its first frame, of any sample of [-1, 1].
CodecSpec == ActiveInit /\ [][CodecNext]_vars

SendNext ==
    \/ StartLiveConversation
    \/ UserStop
    \/ \E k \in Calls : GetUserMediaResolves(k, "none")
    \/ \E k \in Calls : Opened(k)
    \/ \E k \in Calls : ClosedEvent(k)
    \/ \E j \in Calls : AudioProcess(j, 0)

\* The lifecycle, and the frames (of silence) the processors capture.
SendSpec == Init /\ [][SendNext]_vars

SendFaultNext ==
    \/ \E j \in Calls, h \in FrameSamples : AudioProcess(j, h)
    \/ \E j \in Calls, h \in FrameSamples : SendFails(j, h)
    \/ UserStop
    \/ \E k \in Calls : ErrorEvent(k)
    \/ \E k \in Calls : ClosedEvent(k)

\* One Active session whose sends may fail, and its end.
SendFaultSpec == ActiveInit /\ [][SendFaultNext]_vars

\* ------------------------------------------------- TranscriptionFeature

\* The recording a call of startRecording makes: the first one not yet used.
NextRec == CHOOSE r \in Recs : recPc[r] = "unused" /\ \A q \in Recs : q < r => recPc[q] # "unused"

\* startRecording, lines 17-21, up to the await of getUserMedia.  The button
\* calls it only while isRecording is false (line 69).
StartRecording ==
    /\ ~trIsRecording
    /\ \E r \in Recs : recPc[r] = "unused"
    /\ trError' = "null"
    /\ recPc' = [recPc EXCEPT ![NextRec] = "getUserMedia"]
    /\ UNCHANGED <<trIsRecording, isTranscribing, mediaRecorderRef, micStreamRef, recStream,
                   recorder, liveVars, videoVars>>

\* startRecording, lines 21-49, once getUserMedia resolved: both refs are
\* overwritten, the recorder starts and isRecording is set.
RecGetUserMediaResolves(r) ==
    /\ recPc[r] = "getUserMedia"
    /\ micStreamRef' = r
    /\ mediaRecorderRef' = r
    /\ recStream' = [recStream EXCEPT ![r] = "live"]
    /\ recorder' = [recorder EXCEPT ![r] = "recording"]
    /\ trIsRecording' = TRUE
    /\ recPc' = [recPc EXCEPT ![r] = "recording"]
    /\ UNCHANGED <<isTranscribing, trError, liveVars, videoVars>>

\* startRecording, lines 50-52: getUserMedia rejected.
RecGetUserMediaRejects(r) ==
    /\ recPc[r] = "getUserMedia"
    /\ trError' = "start"
    /\ recPc' = [recPc EXCEPT ![r] = "failed"]
    /\ UNCHANGED <<trIsRecording, isTranscribing, mediaRecorderRef, micStreamRef, recStream,
                   recorder, liveVars, videoVars>>

\* stopRecording, lines 55-60, called by the button while isRecording is true:
\* the recorder the ref holds is stopped if it is recording, which queues its
\* stop event; otherwise nothing happens.
StopRecording ==
    /\ trIsRecording
    /\ IF mediaRecorderRef # NoRec /\ recorder[mediaRecorderRef] = "recording"
       THEN /\ recorder' = [recorder EXCEPT ![mediaRecorderRef] = "inactive"]
            /\ recPc' = [recPc EXCEPT ![mediaRecorderRef] = "stopping"]
            /\ trIsRecording' = FALSE
       ELSE UNCHANGED <<recorder, recPc, trIsRecording>>
    /\ UNCHANGED <<isTranscribing, trError, mediaRecorderRef, micStreamRef, recStream,
                   liveVars, videoVars>>

\* onstop, lines 30-37, up to the awaits of fileToBase64 and transcribeAudio.
OnStop(r) ==
    /\ recPc[r] = "stopping"
    /\ isTranscribing' = TRUE
    /\ recPc' = [recPc EXCEPT ![r] = "transcribing"]
    /\ UNCHANGED <<trIsRecording, trError, mediaRecorderRef, micStreamRef, recStream,
                   recorder, liveVars, videoVars>>

\* Line 45: the tracks of the stream micStreamRef holds at that moment are
\* stopped.
TracksStoppedByOnStop ==
    IF micStreamRef = NoRec THEN recStream
    ELSE [recStream EXCEPT ![micStreamRef] = "stopped"]

\* onstop, lines 38-45, once the transcription request settled: the result or
\* the error is stored, isTranscribing is cleared and line 45 runs.
TranscriptionSettles(r, ok) ==
    /\ recPc[r] = "transcribing"
    /\ trError' = IF ok THEN trError ELSE "transcription"
    /\ isTranscribing' = FALSE
    /\ recStream' = TracksStoppedByOnStop
    /\ recPc' = [recPc EXCEPT ![r] = "done"]
    /\ UNCHANGED <<trIsRecording, mediaRecorderRef, micStreamRef, recorder, liveVars, videoVars>>

TranscriptionNext ==
    \/ StartRecording
    \/ StopRecording
    \/ \E r \in Recs : RecGetUserMediaResolves(r)
    \/ \E r \in Recs : RecGetUserMediaRejects(r)
    \/ \E r \in Recs : OnStop(r)
    \/ \E r \in Recs, ok \in BOOLEAN : TranscriptionSettles(r, ok)

\* The transcription feature alone: recordings started and stopped by the
\* button, with their requests settling at any time.
TranscriptionSpec == Init /\ [][TranscriptionNext]_vars

\* --------------------------------------------------------- VideoFeature

Modes == {"generate-text", "generate-image", "analyze"}
GenerateModes == {"generate-text", "generate-image"}

\* Line 140: the key screen replaces the form.
KeyScreen == ~apiKeySelected /\ mode \in GenerateModes

\* The effect of lines 48-59, run after a render that changed isLoading or
\* mode: the first message is shown when loading in a generate mode.
MessageAfterRender(loading, m, msg) ==
    IF loading /\ m \in GenerateModes THEN "first" ELSE msg

\* checkKey, lines 31-38: the effect of the mount finds a key selected.
CheckKey ==
    /\ lastVideoEvent = "init"
    /\ apiKeySelected' = TRUE
    /\ lastVideoEvent' = "checkKey"
    /\ UNCHANGED <<mode, prompt, inputFile, outputVideoUrl, isLoading, loadingMessage,
                   videoError, submitPc, checks, liveVars, trVars>>

\* handleSelectKey, lines 40-46, from the button of the key screen.
HandleSelectKey ==
    /\ KeyScreen
    /\ apiKeySelected' = TRUE
    /\ lastVideoEvent' = "selectKey"
    /\ UNCHANGED <<mode, prompt, inputFile, outputVideoUrl, isLoading, loadingMessage,
                   videoError, submitPc, checks, liveVars, trVars>>

\* setMode, line 156, with the effect of lines 48-59 that a changed mode runs.
SetMode(m) ==
    /\ ~KeyScreen
    /\ m # mode
    /\ mode' = m
    /\ loadingMessage' = MessageAfterRender(isLoading, m, loadingMessage)
    /\ lastVideoEvent' = "setMode"
    /\ UNCHANGED <<prompt, inputFile, outputVideoUrl, isLoading, videoError, apiKeySelected,
                   submitPc, checks, liveVars, trVars>>

\* setPrompt, line 169.
SetPrompt(p) ==
    /\ ~KeyScreen
    /\ p # prompt
    /\ prompt' = p
    /\ lastVideoEvent' = "setPrompt"
    /\ UNCHANGED <<mode, inputFile, outputVideoUrl, isLoading, loadingMessage, videoError,
                   apiKeySelected, submitPc, checks, liveVars, trVars>>

\* handleFileChange, lines 61-67, from the input of line 164.
HandleFileChange ==
    /\ ~KeyScreen
    /\ mode \in {"generate-image", "analyze"}
    /\ ~inputFile
    /\ inputFile' = TRUE
    /\ lastVideoEvent' = "fileChange"
    /\ UNCHANGED <<mode, prompt, outputVideoUrl, isLoading, loadingMessage, videoError,
                   apiKeySelected, submitPc, checks, liveVars, trVars>>

\* The interval of lines 53-56, which runs while loading in a generate mode.
IntervalTick ==
    /\ isLoading
    /\ mode \in GenerateModes
    /\ loadingMessage' = "later"
    /\ lastVideoEvent' = "interval"
    /\ UNCHANGED <<mode, prompt, inputFile, outputVideoUrl, isLoading, videoError,
                   apiKeySelected, submitPc, checks, liveVars, trVars>>

\* Lines 134-137 with the loading message left as it is.
FinallyKeepsMessage ==
    /\ isLoading' = FALSE
    /\ loadingMessage' = loadingMessage
    /\ submitPc' = "idle"

\* handleSubmit's finally, lines 134-137, which ends the call.
Finally ==
    /\ isLoading' = FALSE
    /\ loadingMessage' = ""
    /\ submitPc' = "idle"

\* handleSubmit's catch, lines 126-133.
Catch(keyError) ==
    /\ videoError' = IF keyError THEN "keySubmit" ELSE "thrown"
    /\ apiKeySelected' = IF keyError THEN FALSE ELSE apiKeySelected

\* handleSubmit, lines 87-107, from the button of line 182 (disabled while
\* loading), up to its first await.
HandleSubmit ==
    /\ ~KeyScreen
    /\ ~isLoading
    /\ IF ~prompt
       THEN /\ lastVideoEvent' = "submitIgnored"
            /\ UNCHANGED <<isLoading, videoError, outputVideoUrl, submitPc, checks,
                           loadingMessage>>
       ELSE IF mode \in {"generate-image", "analyze"} /\ ~inputFile
       THEN /\ videoError' = "upload"
            /\ lastVideoEvent' = "submitWithoutFile"
            /\ UNCHANGED <<isLoading, outputVideoUrl, submitPc, checks, loadingMessage>>
       ELSE /\ isLoading' = TRUE
            /\ videoError' = "null"
            /\ outputVideoUrl' = "null"
            /\ submitPc' = IF mode = "analyze" THEN "analyze" ELSE "generate"
            /\ checks' = 0
            /\ loadingMessage' = MessageAfterRender(TRUE, mode, loadingMessage)
            /\ lastVideoEvent' = "submit"
    /\ UNCHANGED <<mode, prompt, inputFile, apiKeySelected, liveVars, trVars>>

\* Lines 110-119 once pollOperation returned an operation that is done: with
\* a video URI the download starts, without one the error is set and the call
\* ends.
PollReturnsOperation(uri) ==
    IF uri
    THEN /\ submitPc' = "fetch"
         /\ UNCHANGED <<isLoading, loadingMessage, videoError>>
    ELSE /\ videoError' = "noUri"
         /\ Finally

\* Lines 101-110 and 70: generateVideoFromText or fileToBase64 and
\* generateVideoFromImage resolved with an operation, and pollOperation tests
\* it for the first time.
GenerateResolves(done, uri) ==
    /\ submitPc = "generate"
    /\ IF done
       THEN PollReturnsOperation(uri)
       ELSE /\ submitPc' = "wait"
            /\ UNCHANGED <<isLoading, loadingMessage, videoError>>
    /\ lastVideoEvent' = "generateResolved"
    /\ UNCHANGED <<mode, prompt, inputFile, outputVideoUrl, apiKeySelected, checks,
                   liveVars, trVars>>

\* Lines 101-107 threw: catch and finally.
GenerateRejects(keyError) ==
    /\ submitPc = "generate"
    /\ Catch(keyError)
    /\ Finally
    /\ lastVideoEvent' = "generateRejected"
    /\ UNCHANGED <<mode, prompt, inputFile, outputVideoUrl, checks, liveVars, trVars>>

\* pollOperation, lines 71-73: the ten seconds passed and checkVideoOperation
\* is called.
TimerFires ==
    /\ submitPc = "wait"
    /\ submitPc' = "check"
    /\ checks' = checks + 1
    /\ lastVideoEvent' = "checkIssued"
    /\ UNCHANGED <<mode, prompt, inputFile, outputVideoUrl, isLoading, loadingMessage,
                   videoError, apiKeySelected, liveVars, trVars>>

\* pollOperation, lines 70-73 and 84: the check answered; an operation that
\* is not done is polled again, one that is done is returned.
CheckResolves(done, uri) ==
    /\ submitPc = "check"
    /\ IF done
       THEN /\ PollReturnsOperation(uri)
            /\ lastVideoEvent' = "checkDone"
       ELSE /\ checks < MaxChecks
            /\ submitPc' = "wait"
            /\ lastVideoEvent' = "checkNotDone"
            /\ UNCHANGED <<isLoading, loadingMessage, videoError>>
    /\ UNCHANGED <<mode, prompt, inputFile, outputVideoUrl, apiKeySelected, checks,
                   liveVars, trVars>>

\* pollOperation, lines 74-82: the check failed; the error is set and null is
\* returned to handleSubmit.
CheckRejects(keyError) ==
    /\ submitPc = "check"
    /\ videoError' = IF keyError THEN "keyPoll" ELSE "polling"
    /\ apiKeySelected' = IF keyError THEN FALSE ELSE apiKeySelected
    /\ submitPc' = "pollFailed"
    /\ lastVideoEvent' = IF keyError THEN "checkRejectedKey" ELSE "checkRejected"
    /\ UNCHANGED <<mode, prompt, inputFile, outputVideoUrl, isLoading, loadingMessage,
                   checks, liveVars, trVars>>

\* Lines 110-119 with a plain else in line 117: a null result of
\* pollOperation is reported as a missing URI.
PollReturnedNullReported ==
    /\ submitPc = "pollFailed"
    /\ videoError' = "noUri"
    /\ Finally
    /\ lastVideoEvent' = "pollReturnedNull"
    /\ UNCHANGED <<mode, prompt, inputFile, outputVideoUrl, apiKeySelected, checks,
                   liveVars, trVars>>

\* Lines 110-119 and 134-137 once pollOperation returned null: neither branch
\* of lines 111-119 runs, then the finally.
PollReturnedNull ==
    /\ submitPc = "pollFailed"
    /\ Finally
    /\ lastVideoEvent' = "pollReturnedNull"
    /\ UNCHANGED <<mode, prompt, inputFile, outputVideoUrl, videoError, apiKeySelected,
                   checks, liveVars, trVars>>

\* Lines 114-116: the download finished and the URL is stored.
FetchResolves ==
    /\ submitPc = "fetch"
    /\ outputVideoUrl' = "url"
    /\ Finally
    /\ lastVideoEvent' = "fetchResolved"
    /\ UNCHANGED <<mode, prompt, inputFile, videoError, apiKeySelected, checks,
                   liveVars, trVars>>

\* Lines 114-115 threw: catch and finally.
FetchRejects(keyError) ==
    /\ submitPc = "fetch"
    /\ Catch(keyError)
    /\ Finally
    /\ lastVideoEvent' = "fetchRejected"
    /\ UNCHANGED <<mode, prompt, inputFile, outputVideoUrl, checks, liveVars, trVars>>

\* Lines 121-124: the analysis answered.
AnalyzeResolves ==
    /\ submitPc = "analyze"
    /\ Finally
    /\ lastVideoEvent' = "analyzeResolved"
    /\ UNCHANGED <<mode, prompt, inputFile, outputVideoUrl, videoError, apiKeySelected,
                   checks, liveVars, trVars>>

\* Lines 122-123 threw: catch and finally.
AnalyzeRejects(keyError) ==
    /\ submitPc = "analyze"
    /\ Catch(keyError)
    /\ Finally
    /\ lastVideoEvent' = "analyzeRejected"
    /\ UNCHANGED <<mode, prompt, inputFile, outputVideoUrl, checks, liveVars, trVars>>

\* What the user and the timers do to the form.
VideoUser ==
    \/ CheckKey
    \/ HandleSelectKey
    \/ \E m \in Modes : SetMode(m)
    \/ \E p \in BOOLEAN : SetPrompt(p)
    \/ HandleFileChange
    \/ IntervalTick
    \/ HandleSubmit

\* The continuations of a running handleSubmit call: every await of it
\* settles one way or the other.
VideoSettles ==
    \/ \E done, uri \in BOOLEAN : GenerateResolves(done, uri)
    \/ \E keyError \in BOOLEAN : GenerateRejects(keyError)
    \/ TimerFires
    \/ \E done, uri \in BOOLEAN : CheckResolves(done, uri)
    \/ \E keyError \in BOOLEAN : CheckRejects(keyError)
    \/ PollReturnedNull
    \/ FetchResolves
    \/ \E keyError \in BOOLEAN : FetchRejects(keyError)
    \/ AnalyzeResolves
    \/ \E keyError \in BOOLEAN : AnalyzeRejects(keyError)

VideoNext == VideoUser \/ VideoSettles

\* The video feature alone.
VideoSpec == Init /\ [][VideoNext]_vars

\* The video feature with every pending await settling eventually: the timer
\* of line 71 fires, and each request resolves or rejects; an operation is
\* reported not done MaxChecks times at most.
VideoFairSpec == Init /\ [][VideoNext]_vars /\ WF_vars(VideoSettles)

\* --------------------------------------------------------------- claims

\* The sessions that are live: connecting or connected, and not asked to close.
LiveSessions ==
    {k \in Calls : transport[k] \in {"connecting", "open"} /\ ~closeRequested[k]}

\* C1: in every reachable state at most one transport session of the
\* controller is live (connected or connecting and not yet asked to close).
C1_AtMostOneLiveSession == Cardinality(LiveSessions) <= 1

\* Nothing asynchronous is pending: no getUserMedia, no connect, no closing
\* handshake, no close event owed after an error.
Quiescent ==
    \A k \in Calls :
        /\ pc[k] # "getUserMedia"
        /\ transport[k] \notin {"connecting", "closing", "errored"}
        /\ decoding[k] = {}

\* No step of any startLiveConversation call has failed.
NoStartFailed == \A k \in Calls : pc[k] # "failed" /\ promise[k] # "rejected"

\* Nothing the controller acquired is still held.
NothingHeld ==
    \A k \in Calls :
        /\ stream[k] # "live"
        /\ inputCtx[k] # "running"
        /\ outputCtx[k] # "running"
        /\ transport[k] # "open"

\* C2: once stopLiveConversation has run (since the latest accepted start) and
\* every pending asynchronous step has completed, no microphone track is live,
\* no audio context is open and no transport session remains unclosed.
C2_TeardownLeakFree == (stopRan /\ Quiescent /\ NoStartFailed) => NothingHeld

\* A step in which stopLiveConversation runs: the stop button, onerror, onclose.
TeardownStep == lastEvent'.name \in {"stop", "error", "closed"}

\* The terminal state of a teardown.
IsClosed == ~isRecording /\ sessionPromiseRef = NoCall /\ audioResourcesRef = NoCall

\* Every release step of every call took effect at most once.
ReleasedAtMostOnce ==
    \A k \in Calls :
        /\ released[k].close <= 1
        /\ released[k].disconnect <= 1
        /\ released[k].trackStop <= 1
        /\ released[k].inputClose <= 1
        /\ released[k].outputClose <= 1

\* C3: teardown is idempotent: every run of stopLiveConversation ends in the
\* Closed state (isRecording false, both refs null); a run that starts in the
\* Closed state (a second stop, a late closed event) releases nothing and
\* leaves that state as it is; and each release step (session.close,
\* processor.disconnect, track.stop, inputCtx.close, outputCtx.close) takes
\* effect at most once per session.
C3_TeardownIdempotent ==
    [][ /\ TeardownStep => IsClosed'
        /\ (TeardownStep /\ IsClosed) =>
              UNCHANGED <<isRecording, refVars, resVars, closeRequested>>
        /\ ReleasedAtMostOnce' ]_vars

\* A closed event of call k arrives in the Closed state, after an earlier
\* teardown has already released everything of call k once.
C3_Witness ==
    \E k \in Calls :
        /\ lastEvent = [name |-> "closed", call |-> k, from |-> "Closed"]
        /\ released[k] = [close |-> 1, disconnect |-> 1, trackStop |-> 1,
                          inputClose |-> 1, outputClose |-> 1]
        /\ IsClosed

\* C4: if a step of startLiveConversation fails (getUserMedia, an audio
\* context, connect throwing or its promise rejecting), the controller is
\* Closed, the failure is surfaced in the error state and every resource the
\* call acquired is released.
C4_StartFailureRollsBack ==
    \A k \in Calls :
        (lastEvent.call = k /\
         lastEvent.name \in {"getUserMediaRejected", "startThrew", "connectRejected"})
        => /\ ~isRecording
           /\ error = "start"
           /\ stream[k] # "live"
           /\ inputCtx[k] # "running"
           /\ outputCtx[k] # "running"

\* Call k is Active: recording, opened, and both refs hold what k owns.
Active(k) ==
    /\ isRecording
    /\ sessionPromiseRef = k
    /\ audioResourcesRef = k
    /\ transport[k] = "open"

\* The state every teardown of the Active call k ends in.
TornDown(k) ==
    /\ closeRequested[k]
    /\ released[k].close = 1
    /\ processor[k] = "disconnected"
    /\ stream[k] = "stopped"
    /\ inputCtx[k] = "closed"
    /\ outputCtx[k] = "closed"
    /\ sessionPromiseRef = NoCall
    /\ audioResourcesRef = NoCall
    /\ ~isRecording

\* C5: from the Active state, the stop button, a closed event and an error
\* event of the session all reach the same terminal state: close requested on
\* the session, processor disconnected, tracks stopped, both contexts closed,
\* both refs null, isRecording false.
C5_SameTeardownFromActive ==
    [][ \A k \in Calls :
          (Active(k) /\ \/ lastEvent'.name = "stop"
                        \/ lastEvent'.name \in {"error", "closed"} /\ lastEvent'.call = k)
          => TornDown(k)' ]_vars

\* An error event has torn down the call that was Active.
C5_Witness ==
    \E k \in Calls :
        /\ lastEvent = [name |-> "error", call |-> k, from |-> "Active"]
        /\ error = "live"
        /\ TornDown(k)

\* The concatenation of a list of deltas, in order.
RECURSIVE Concat(_)
Concat(deltas) == IF deltas = << >> THEN "" ELSE Head(deltas) \o Concat(Tail(deltas))

\* C6: a message with turnComplete appends exactly one turn to the history,
\* whose user field is the concatenation in arrival order of the input deltas
\* since the previous turnComplete and whose model field is that of the output
\* deltas, and leaves both buffers empty; a message without turnComplete
\* appends nothing.
C6_TurnIsConcatenation ==
    [][ \A k \in Calls :
          (lastEvent'.name = "message" /\ lastEvent'.call = k) =>
             IF turnDone'[k]
             THEN /\ conversationHistory' =
                        Append(conversationHistory,
                               [user |-> Concat(inputDeltas'[k]),
                                model |-> Concat(outputDeltas'[k])])
                  /\ currentInputTranscription'[k] = ""
                  /\ currentOutputTranscription'[k] = ""
             ELSE conversationHistory' = conversationHistory ]_vars

\* A second turn was completed from two input deltas and an output delta
\* that arrived after the first turn's completion.
C6_Witness ==
    /\ turnDone[1]
    /\ Len(conversationHistory) = 2
    /\ conversationHistory[1] = [user |-> "a", model |-> ""]
    /\ inputDeltas[1] = <<"b", "a">>
    /\ outputDeltas[1] = << >>
    /\ conversationHistory[2] = [user |-> "ba", model |-> ""]

\* Each scheduled segment starts no earlier than the end of the one before it.
NoOverlap(s) ==
    \A i \in 2..Len(s) : s[i].start >= s[i-1].start + s[i-1].duration

\* C7: the start times handed to the output device are non-decreasing in
\* scheduling order, each at least the previous start time plus the previous
\* duration, and nextStartTime never decreases.
C7_GaplessNoOverlap ==
    [][ \A k \in Calls :
          /\ NoOverlap(scheduled'[k])
          /\ nextStartTime'[k] >= nextStartTime[k] ]_vars

\* Two segments were scheduled back to back while the device clock was still
\* before the second one's start (they arrived faster than real time).
C7_Witness ==
    /\ Len(scheduled[1]) >= 2
    /\ scheduled[1][2].start = scheduled[1][1].start + scheduled[1][1].duration
    /\ currentTime[1] < scheduled[1][2].start
    /\ scheduled[1][1].start > 0

\* C8: the segments of a session are scheduled in the order their messages
\* were received.
C8_ScheduledInReceiptOrder ==
    \A k \in Calls :
        \A i, j \in 1..Len(scheduled[k]) :
            i < j => scheduled[k][i].id < scheduled[k][j].id

C10_ErrorBeforeOpenTearsDown ==
    [][ \A k \in Calls :
          (transport[k] = "connecting" /\ lastEvent'.name = "error" /\ lastEvent'.call = k)
          => /\ stream'[k] = "stopped"
             /\ inputCtx'[k] = "closed"
             /\ outputCtx'[k] = "closed"
             /\ ~isRecording'
             /\ error' = "live" ]_vars

\* C11: when one release step of a teardown fails, every other step is still
\* performed and the controller ends Closed: the session of the ref is asked to
\* close, the processor is disconnected, the track stopped, both contexts
\* closed, the refs cleared and isRecording false.
C11_TeardownStepsFaultTolerant ==
    [][ \A step \in TeardownSteps :
          lastEvent'.name = StopFailed(step) =>
             /\ IsClosed'
             /\ HasSession => closeRequested'[sessionPromiseRef]
             /\ \A r \in Calls : audioResourcesRef = r =>
                   /\ step # "disconnect" => processor'[r] = "disconnected"
                   /\ step # "trackStop" => stream'[r] = "stopped"
                   /\ step # "inputClose" => inputCtx'[r] = "closed"
                   /\ step # "outputClose" => outputCtx'[r] = "closed" ]_vars

\* C12: conversationHistory is append-only within a session: an accepted
\* startLiveConversation call sets it to the empty list, and every other step
\* either leaves it alone or, handling a turnComplete message, appends one
\* turn to it; no entry is removed, changed or reordered.
C12_HistoryAppendOnly ==
    [][ IF lastEvent'.name = "start" /\ lastEvent'.call # NoCall
        THEN conversationHistory' = << >>
        ELSE \/ conversationHistory' = conversationHistory
             \/ /\ lastEvent'.name = "message"
                /\ turnDone'[lastEvent'.call]
                /\ Len(conversationHistory') = Len(conversationHistory) + 1
                /\ SubSeq(conversationHistory', 1, Len(conversationHistory))
                      = conversationHistory ]_vars

\* The second accepted call has just cleared a history that held a turn of the
\* first session, whose latest message completed a turn.
C12_Witness ==
    /\ lastEvent.name = "start"
    /\ lastEvent.call = 2
    /\ turnDone[1]
    /\ conversationHistory = << >>

\* C13: when the getUserMedia of a call rejects, the call ends with the start
\* error set and the controller Closed (isRecording false, both refs null), and
\* the call has created no audio context and issued no connect.
C13_MicrophoneRejectionEndsClosed ==
    [][ \A k \in Calls :
          (lastEvent'.name = "getUserMediaRejected" /\ lastEvent'.call = k) =>
             /\ error' = "start"
             /\ IsClosed'
             /\ inputCtx'[k] = "none"
             /\ outputCtx'[k] = "none"
             /\ transport'[k] = "none" ]_vars

\* C14: a failing decode drops that one segment and nothing else: the step
\* leaves the component state, the refs, the resources, the session (no close
\* requested) and the transcription buffers as they were and removes only that
\* segment from the pending ones; the segments scheduled before and after it
\* never overlap.
C14_DecodeFailureDropsOneSegment ==
    [][ \A k \in Calls :
          /\ (lastEvent'.name = "decodeRejected" /\ lastEvent'.call = k) =>
                /\ UNCHANGED <<compVars, refVars, resVars, connVars, turnVars>>
                /\ UNCHANGED <<scheduled, nextStartTime, received>>
                /\ \E seg \in decoding[k] : decoding' = [decoding EXCEPT ![k] = @ \ {seg}]
          /\ NoOverlap(scheduled'[k]) ]_vars

\* The first message carried a segment, the user's words and the end of the
\* turn; its decode failed: the turn is in the history, the session is still
\* Active, and the second segment has been scheduled.
C14_Witness ==
    /\ Active(1)
    /\ received[1] >= 2
    /\ \A seg \in decoding[1] : seg.id # 1
    /\ \A i \in 1..Len(scheduled[1]) : scheduled[1][i].id # 1
    /\ \E i \in 1..Len(scheduled[1]) : scheduled[1][i].id = 2
    /\ conversationHistory = << [user |-> "a", model |-> ""] >>
    /\ lastEvent.name = "decoded"

\* C15: while a session is Active, every capture callback makes exactly one
\* sendRealtimeInput call, on that session: it carries that callback's frame,
\* encoded, in 8192 bytes (two bytes for each of the 4096 samples) with MIME
\* type audio/pcm;rate=16000; nothing is sent on another session or held back,
\* and the frames sent on the session are in capture order, none twice.
C15_OneSendPerCaptureCallback ==
    [][ \A k \in Calls :
          (Active(k) /\ lastEvent'.name = "audioprocess") =>
             LET id == Len(captured')
                 n == Len(sent[k])
             IN  /\ id = Len(captured) + 1
                 /\ Len(sent'[k]) = n + 1
                 /\ SubSeq(sent'[k], 1, n) = sent[k]
                 /\ sent'[k][n + 1].frame = id
                 /\ sent'[k][n + 1].data = EncodeSample(captured'[id].sample)
                 /\ sent'[k][n + 1].bytes = 8192
                 /\ sent'[k][n + 1].mimeType = "audio/pcm;rate=16000"
                 /\ \A i \in 1..n : sent'[k][i].frame < id
                 /\ \A j \in Calls \ {k} : sent'[j] = sent[j]
                 /\ pendingSends' = pendingSends ]_vars

\* Two frames were captured while the session was Active, the first one
\* silence: both were sent on it, in order, the first as zeros.
C15_Witness ==
    /\ Active(1)
    /\ lastEvent.name = "audioprocess"
    /\ Len(captured) = 2
    /\ Len(sent[1]) = 2
    /\ sent[1][1] = [frame |-> 1, data |-> 0, bytes |-> 8192, mimeType |-> "audio/pcm;rate=16000"]
    /\ sent[1][2].frame = 2

\* C16: for every sample of [-1, 1] that is a multiple of 1/32768, the value
\* sent for it, decoded (divided by 32768), is within one quantization step
\* (1/32768, two units of the samples' integer form) of the sample.
C16_RoundTripWithinOneStep ==
    \A k \in Calls :
        \A i \in 1..Len(sent[k]) :
            LET h == captured[sent[k][i].frame].sample
                d == DecodeSample(sent[k][i].data) - h
            IN  h % 2 = 0 => d \in -2..2

\* The steps that end a session or a start: stop, the transport's error and
\* closed events, a rejected connect, and the two ways a start fails.
EndingStep ==
    lastEvent'.name \in {"stop", "error", "closed", "connectRejected",
                         "getUserMediaRejected", "startThrew"}

C18_StartNotBeforeDeviceTime ==
    [][ \A k \in Calls :
          (lastEvent'.name = "decoded" /\ lastEvent'.call = k) =>
             LET seg == scheduled'[k][Len(scheduled'[k])]
             IN  /\ seg.start = Max(nextStartTime[k], seg.now)
                 /\ seg.start >= seg.now
                 /\ nextStartTime'[k] = seg.start + seg.duration ]_vars

\* C19: no segment is scheduled on an output context that teardown has
\* closed: at every source.start the segment's context is not closed.
C19_NeverScheduledOnClosedContext ==
    \A k \in Calls :
        \A i \in 1..Len(scheduled[k]) : scheduled[k][i].ctxState # "closed"

\* C20: a closed or error event of a session that was already stopped tears
\* down no newer session: when the event of session a runs while the
\* controller is recording for a later call b whose session or resources a
\* ref holds, b's session is not asked to close, b's stream and contexts stay
\* as they were and isRecording stays true.
C20_StaleEventSparesNewerSession ==
    [][ \A a, b \in Calls :
          ( /\ a < b
            /\ closeRequested[a]
            /\ lastEvent'.name \in {"closed", "error"}
            /\ lastEvent'.call = a
            /\ isRecording
            /\ sessionPromiseRef = b \/ audioResourcesRef = b )
          => /\ closeRequested'[b] = closeRequested[b]
             /\ stream'[b] = stream[b]
             /\ inputCtx'[b] = inputCtx[b]
             /\ outputCtx'[b] = outputCtx[b]
             /\ processor'[b] = processor[b]
             /\ isRecording' ]_vars

\* C21: a message of a session for which stopLiveConversation has run (its
\* close was requested) never changes conversationHistory: a late
\* turnComplete of that session appends no turn.
C21_LateTurnLeavesHistory ==
    [][ \A k \in Calls :
          (closeRequested[k] /\ lastEvent'.name = "message" /\ lastEvent'.call = k)
          => conversationHistory' = conversationHistory ]_vars

\* The operations of log are in the order rank gives them, none twice.
InOrder(log, rank) ==
    \A i, j \in 1..Len(log) : i < j => rank[log[i]] < rank[log[j]]

\* C22 (as claimed): every teardown performs its operations in the order
\* session.close(), processor.disconnect(), track.stop(), inputCtx.close(),
\* outputCtx.close(), and closes no context that is already closed.
C22_CloseThenReleaseInOrder ==
    [][ TeardownStep =>
          /\ InOrder(SelectSeq(teardownLog', LAMBDA op : op # "requestClose"),
                     [close |-> 1, disconnect |-> 2, trackStop |-> 3,
                      inputClose |-> 4, outputClose |-> 5])
          /\ \A r \in Calls : audioResourcesRef = r =>
                /\ inputCtx[r] = "closed" =>
                      \A i \in 1..Len(teardownLog') : teardownLog'[i] # "inputClose"
                /\ outputCtx[r] = "closed" =>
                      \A i \in 1..Len(teardownLog') : teardownLog'[i] # "outputClose" ]_vars

\* C22 (amended): every teardown first registers the close on the session
\* promise, then disconnects the processor, stops the tracks, closes the input
\* context and closes the output context, in this order and skipping a context
\* that is already closed; session.close() itself is called after these.
C22_RegisterThenReleaseThenClose ==
    [][ TeardownStep =>
          /\ InOrder(teardownLog',
                     [requestClose |-> 1, disconnect |-> 2, trackStop |-> 3,
                      inputClose |-> 4, outputClose |-> 5, close |-> 6])
          /\ \A r \in Calls : audioResourcesRef = r =>
                /\ inputCtx[r] = "closed" =>
                      \A i \in 1..Len(teardownLog') : teardownLog'[i] # "inputClose"
                /\ outputCtx[r] = "closed" =>
                      \A i \in 1..Len(teardownLog') : teardownLog'[i] # "outputClose" ]_vars

\* The stop button was pressed on an Active session: all five release
\* operations were performed, and session.close() after them.
C22_Witness ==
    /\ lastEvent.name = "stop"
    /\ lastEvent.from = "Active"
    /\ teardownLog = << "requestClose", "disconnect", "trackStop", "inputClose", "outputClose",
                        "close" >>

\* C23: stopping halts capture.  A run of stopLiveConversation leaves no
\* processor connected; once it has run (since the latest accepted start) a
\* capture callback makes and registers no send on any session; and no frame
\* is sent on a session on which close() was called.
C23_StopHaltsCapture ==
    [][ /\ TeardownStep => \A k \in Calls : processor'[k] # "connected"
        /\ (stopRan /\ lastEvent'.name = "audioprocess") =>
              /\ sent' = sent
              /\ pendingSends' = pendingSends
        /\ \A k \in Calls : sent'[k] # sent[k] => released[k].close = 0 ]_vars

\* The frames of the sends s are in capture order.
InCaptureOrder(s) == \A i, j \in 1..Len(s) : i < j => s[i].frame < s[j].frame

\* C24: the frames of one session are handed to the transport in the order
\* the capture callbacks produced them, whether they were sent at once or
\* held until the session opened.
C24_SentInCaptureOrder ==
    \A k \in Calls :
        /\ InCaptureOrder(sent[k])
        /\ InCaptureOrder(sent[k] \o pendingSends[k])

\* Two frames were captured while the session of the ref was still
\* connecting, and were sent when it opened, the first one first.
C24_Witness ==
    \E k \in Calls :
        /\ lastEvent = [name |-> "opened", call |-> k, from |-> lastEvent.from]
        /\ Len(sent[k]) = 2
        /\ sent[k][1].frame = 1
        /\ sent[k][2].frame = 2

\* C25: a failing sendRealtimeInput call stops nothing: the step changes
\* only the record of captured frames (an Active controller stays Active, no
\* teardown runs, no resource is released, nothing is reported), and every
\* later capture callback of the Active session sends its frame.
C25_SendFailureKeepsCapturing ==
    [][ /\ lastEvent'.name = "sendFailed" =>
              /\ UNCHANGED <<compVars, refVars, resVars, connVars, sent, pendingSends>>
              /\ teardownLog' = << >>
              /\ \A k \in Calls : Active(k) => Active(k)'
        /\ \A k \in Calls :
              (Active(k) /\ lastEvent'.name = "audioprocess") =>
                 /\ Len(sent'[k]) = Len(sent[k]) + 1
                 /\ sent'[k][Len(sent'[k])].frame = Len(captured') ]_vars

\* The send of the first frame failed; the session is still Active and the
\* second frame has been sent on it.
C25_Witness ==
    /\ Active(1)
    /\ Len(captured) = 2
    /\ Len(sent[1]) = 1
    /\ sent[1][1].frame = 2
    /\ lastEvent.name = "audioprocess"

\* C26: every sample of [-1, 1] is sent as the truncated product
\* sample * 32768 itself: the 16-bit store wraps no sample of that range.
C26_NoWraparoundInRange ==
    \A k \in Calls :
        \A i \in 1..Len(sent[k]) :
            LET h == captured[sent[k][i].frame].sample
            IN  h \in Samples => sent[k][i].data = Truncated(h)

\* C27: when the onstop handler of a recording finishes, the stream that
\* recording's startRecording acquired is stopped, and the stream of no other
\* recording changes.
C27_OnStopStopsItsOwnStream ==
    [][ \A r \in Recs :
          (recPc[r] = "transcribing" /\ recPc'[r] = "done") =>
             /\ recStream'[r] = "stopped"
             /\ \A q \in Recs \ {r} : recStream'[q] = recStream[q] ]_vars

\* C28: a failed status check sets the polling error (and clears
\* apiKeySelected when it is the key error), issues no check and leaves
\* pollOperation with null; from then on no check is issued for the call, and
\* handleSubmit ends it with no output video URL and with that error kept.
C28_PollingFailureEndsQuietly ==
    [][ /\ (submitPc = "check" /\ lastVideoEvent' \in {"checkRejected", "checkRejectedKey"}) =>
              /\ submitPc' = "pollFailed"
              /\ checks' = checks
              /\ videoError' =
                     IF lastVideoEvent' = "checkRejectedKey" THEN "keyPoll" ELSE "polling"
              /\ lastVideoEvent' = "checkRejectedKey" => ~apiKeySelected'
              /\ outputVideoUrl' = "null"
        /\ submitPc = "pollFailed" =>
              /\ submitPc' \in {"pollFailed", "idle"}
              /\ checks' = checks
              /\ videoError' = videoError
              /\ videoError \in {"keyPoll", "polling"}
              /\ outputVideoUrl' = "null" ]_vars

\* A call that polled twice has ended after a failed check with the key
\* error: the error is shown, the key is deselected and there is no video.
C28_Witness ==
    /\ lastVideoEvent = "pollReturnedNull"
    /\ checks = 2
    /\ videoError = "keyPoll"
    /\ ~apiKeySelected
    /\ ~isLoading
    /\ outputVideoUrl = "null"

\* C29: a handleSubmit call that set isLoading ends: isLoading is false
\* again and the loading message is empty, whichever way the call went; and
\* a check that reports the operation not done is always followed by another
\* wait and check, the call staying in its loading state.
C29_LoadingEnds ==
    /\ isLoading ~> (~isLoading /\ loadingMessage = "")
    /\ [][ lastVideoEvent' = "checkNotDone" =>
              /\ submitPc' = "wait"
              /\ isLoading'
              /\ checks' = checks ]_vars

\* A call in a generate mode, whose loading message had been set, has ended
\* after a failed check that followed a check reporting not done.
C29_Witness ==
    /\ lastVideoEvent = "pollReturnedNull"
    /\ checks = 2
    /\ mode \in GenerateModes
    /\ videoError = "polling"
    /\ ~isLoading
    /\ loadingMessage = ""

====
